---- MODULE Spec2Model ----
(***************************************************************************)
(* Gmail Cleaner Pro: the category clean-up path.                          *)
(*   POST /api/v1/clean -> CleanHandler.Clean -> CleanerService            *)
(*   .CleanCategories -> gmail.Service (paginated listing, per-thread      *)
(*   trash / permanent delete, post-delete estimate).                      *)
(* The Gmail API itself is the environment: every remote call is answered  *)
(* nondeterministically, within the profile chosen in Init.                *)
(* Further specifications over the same variables:                         *)
(*   RouterSpec      the middleware stack of setupRouter and what it logs  *)
(*   ListerPairSpec  ListTrashThreads beside ListCategoryThreads("TRASH")  *)
(*   ConnSpec        MetricsMiddleware under concurrent requests           *)
(*   LoggerSpec      pkg/logger: InitLogger and L around one sync.Once     *)
(***************************************************************************)
EXTENDS Integers, Sequences, FiniteSets, TLC

\* ------------------------------------------------------------------------
\* Bounds of the model
\* ------------------------------------------------------------------------
MaxCats == 2        \* longest category sequence of a clean request
MaxCap == 2         \* largest small cap / max tried
MaxThreads == 2     \* threads initially under each label of a small mailbox
MaxFaults == 1      \* responses of one clean request that deviate from the well-behaved one
MaxRequests == 2    \* requests the router serves in one run
MaxConns == 3       \* requests in flight at the same time
MaxCallers == 2     \* goroutines calling into the logger package

\* ------------------------------------------------------------------------
\* Program constants
\* ------------------------------------------------------------------------
maxPerPage == 500
SentinelCap == 1000000
MaxRequestCap == 1000000
StatusOK == 200
StatusBadRequest == 400
StatusUnauthorized == 401
StatusInternalServerError == 500
StatusTemporaryRedirect == 307
BodyLogLimit == 10240

ReasonAll == "all categories processed"
ReasonMax == "max per category reached; more emails may remain"
ReasonRemaining == "remaining emails detected in one or more categories"

\* the closed set of the binding tag `oneof=...`
ValidLabels ==
  {"CATEGORY_SOCIAL", "CATEGORY_FORUMS", "CATEGORY_PROMOTIONS", "CATEGORY_UPDATES", "TRASH"}

\* labels the model draws requests from: three valid ones and one the binding rejects
ModelLabels == {"CATEGORY_SOCIAL", "CATEGORY_PROMOTIONS", "TRASH", "INBOX"}
\* labels the modelled mailbox can be listed by
BoxLabels == {"CATEGORY_SOCIAL", "CATEGORY_PROMOTIONS", "TRASH"}

AuthMarkers ==
  {"ACCESS_TOKEN_SCOPE_INSUFFICIENT", "insufficientPermissions", "Error 401", "Error 403"}

\* error texts a remote call can fail with, as sequences of text fragments
ProviderErrors == {<<"Error 401">>, <<"Error 500">>}

\* ------------------------------------------------------------------------
\* Small helpers
\* ------------------------------------------------------------------------
Min(a, b) == IF a < b THEN a ELSE b
Max(a, b) == IF a > b THEN a ELSE b

RECURSIVE SeqsUpTo(_, _)
SeqsUpTo(S, n) ==
  IF n = 0 THEN {<<>>}
  ELSE LET shorter == SeqsUpTo(S, n - 1)
       IN shorter \cup {Append(s, x) : s \in shorter, x \in S}

RECURSIVE Without(_, _)
Without(s, x) ==
  IF s = <<>> THEN <<>>
  ELSE IF Head(s) = x THEN Without(Tail(s), x)
  ELSE <<Head(s)>> \o Without(Tail(s), x)

Contains(s, x) == \E j \in 1..Len(s) : s[j] = x

WrapOpaque(prefix, e) == <<prefix>>

\* fmt.Errorf("<prefix>: %w", err): the wrapped text keeps the cause's text
Wrap(prefix, e) == <<prefix>> \o e

VARIABLES
  entry,        \* which exported operation was invoked
  header,       \* X-Access-Token header present
  conf,         \* OAuth2 environment variables present
  svc,          \* gmail.NewService succeeds
  req,          \* decoded JSON body: [MaxPerCategory, Categories]
  provider,     \* behaviour profile of the remote API
  mailbox,      \* remote state: label -> threads listed under it, in list order
  mailbox0,     \* history: the remote state when the request arrived
  faults,       \* responses so far that a well-behaved provider would not give
  pc,           \* control position of the request
  categories, maxPerCat, idx, result, total, completed, reason, ids, i,
  categoryLabel, max, allThreads, pageToken, pageCount, totalFetched,
  status,       \* HTTP status written by the handler (0: none yet)
  summary,      \* <<>> for nil, <<CleanSummary>> otherwise
  err,          \* <<>> for nil, the error text otherwise
  threads,      \* what a directly invoked lister returned
  calls,        \* history: remote calls and pauses, in order
  request,      \* router: the HTTP request in flight
  response,     \* router: what the handler wrote
  stage,        \* router: position of the request in the middleware stack
  log,          \* router: the emitted log entries, in order
  served,       \* router: requests answered so far
  requestID,    \* router: "request_id" of the request context
  headerID,     \* router: X-Request-ID header of the response
  first,        \* lister pair: what the trash lister did, once it returned
  active,       \* metrics: globalMetrics.ActiveConnections
  conns,        \* metrics: the requests in flight, each with its position
  zapLog,       \* logger: the package variable `log`
  once,         \* logger: the package variable `once`
  callers       \* logger: the goroutines calling InitLogger and L

inputVars == <<entry, header, conf, svc, req, provider, mailbox0>>
cleanVars == <<categories, maxPerCat, idx, result, total, completed, reason>>
batchVars == <<ids, i>>
listVars == <<categoryLabel, max, allThreads, pageToken, pageCount, totalFetched>>
outVars == <<status, summary, err, threads>>
serviceVars ==
  <<inputVars, mailbox, faults, pc, cleanVars, batchVars, listVars, outVars, calls>>
idVars == <<requestID, headerID>>
routerVars == <<request, response, stage, log, served, idVars>>
pairVars == <<first>>
connVars == <<active, conns>>
loggerVars == <<zapLog, once, callers>>
sideVars == <<pairVars, connVars, loggerVars>>
vars == <<serviceVars, routerVars, sideVars>>

\* ------------------------------------------------------------------------
\* History records
\* ------------------------------------------------------------------------
\* op/k/label/size/token/tid/add/remove describe the request, the rest its outcome
\* (ret: number of threads of a list page, or the estimate; got: the threads of a
\* list page; cause: the error text the provider answered with)
NoCall == [op |-> "none", k |-> 0, label |-> "", size |-> 0, token |-> 0,
           tid |-> <<>>, add |-> "", remove |-> "", fail |-> FALSE, ret |-> 0,
           got |-> <<>>, cause |-> <<>>]
ListCall(k, label, size, token, res) ==
  [NoCall EXCEPT !.op = "list", !.k = k, !.label = label, !.size = size, !.token = token,
                 !.fail = (res.err # <<>>), !.ret = Len(res.threads),
                 !.got = res.threads, !.cause = res.err]
ModifyCall(k, label, tid, add, remove, e) ==
  [NoCall EXCEPT !.op = "modify", !.k = k, !.label = label, !.tid = tid,
                 !.add = add, !.remove = remove, !.fail = (e # <<>>), !.cause = e]
DeleteCall(k, label, tid, e) ==
  [NoCall EXCEPT !.op = "delete", !.k = k, !.label = label, !.tid = tid,
                 !.fail = (e # <<>>), !.cause = e]
EstimateCall(k, label, res) ==
  [NoCall EXCEPT !.op = "estimate", !.k = k, !.label = label, !.size = 1,
                 !.fail = (res.err # <<>>), !.ret = res.estimate, !.cause = res.err]
\* time.Sleep between two pages of a listing
Sleep(k, label) ==
  [NoCall EXCEPT !.op = "sleep", !.k = k, !.label = label]
\* time.Sleep after a label of CleanCategories
Pause(k, label) ==
  [NoCall EXCEPT !.op = "pause", !.k = k, !.label = label]

\* ------------------------------------------------------------------------
\* The remote API (environment)
\* ------------------------------------------------------------------------
\*   wellBehaved: never fails; a page holds min(pageSize, unlisted) threads and
\*                carries a token iff threads remain; estimates are exact
\*   fullPages:   as wellBehaved, but a page may carry or omit the token at will
\*   arbitrary:   may fail, return short, empty or over-full pages, any token
\*                (also one that replays the listing), any estimate
\* A response that differs from the well-behaved one is a fault; a clean
\* request meets at most MaxFaults of them, a directly invoked lister, whose
\* runs are short, one more.
Providers == {"wellBehaved", "fullPages", "arbitrary"}

FaultBudget == IF entry = "Clean" THEN MaxFaults ELSE MaxFaults + 1

\* a continuation token names the position the next page starts at; 0 is ""
Cursor(token) == IF token = 0 THEN 0 ELSE token - 1

Page(label, cur, n, t) ==
  [err |-> <<>>, threads |-> SubSeq(mailbox[label], cur + 1, cur + n), next |-> t]

\* Users.Threads.List(userID).LabelIds(label).MaxResults(pageSize).PageToken(token).Do()
HonestPage(label, pageSize, token) ==
  LET size == Len(mailbox[label])
      cur == Min(Cursor(token), size)
      n == Min(Max(pageSize, 0), size - cur)
  IN Page(label, cur, n, IF cur + n < size THEN cur + n + 1 ELSE 0)

ListResponses(label, pageSize, token) ==
  LET size == Len(mailbox[label])
      cur == Min(Cursor(token), size)
      avail == size - cur
      honest == HonestPage(label, pageSize, token)
      counts == IF provider = "arbitrary"
                THEN 0..Min(avail, Max(pageSize, 0) + 1)
                ELSE {Len(honest.threads)}
      nexts(n) == IF provider = "arbitrary" THEN {0, 1, cur + n + 1} ELSE {0, cur + n + 1}
      failures == IF provider = "arbitrary" THEN ProviderErrors ELSE {}
      pairs == UNION {{<<n, t>> : t \in nexts(n)} : n \in counts}
  IN IF provider = "wellBehaved" \/ faults >= FaultBudget
     THEN {honest}
     ELSE {honest} \cup {Page(label, cur, p[1], p[2]) : p \in pairs}
          \cup {[err |-> e, threads |-> <<>>, next |-> 0] : e \in failures}

\* Users.Threads.List(userID).LabelIds(label).MaxResults(1).Do().ResultSizeEstimate
HonestEstimate(label) == [err |-> <<>>, estimate |-> Len(mailbox[label])]

EstimateResponses(label) ==
  IF provider # "arbitrary" \/ faults >= FaultBudget
  THEN {HonestEstimate(label)}
  ELSE {HonestEstimate(label)}
       \cup {[err |-> <<>>, estimate |-> n] : n \in {0, 1}}
       \cup {[err |-> e, estimate |-> 0] : e \in ProviderErrors}

\* outcome of Users.Threads.Modify / Users.Threads.Delete: <<>> is success
MutateResponses ==
  IF provider # "arbitrary" \/ faults >= FaultBudget THEN {<<>>} ELSE {<<>>} \cup ProviderErrors

\* faults after a response r where the well-behaved one is h
Faults(r, h) == IF r = h THEN faults ELSE faults + 1

Exists(tid) == \E l \in BoxLabels : Contains(mailbox[l], tid)

\* effect of Modify(add TRASH, remove INBOX): the thread is listed under TRASH only
Trashed(tid) ==
  IF ~Exists(tid) THEN mailbox
  ELSE [l \in BoxLabels |->
          IF l = "TRASH"
          THEN IF Contains(mailbox[l], tid) THEN mailbox[l] ELSE Append(mailbox[l], tid)
          ELSE Without(mailbox[l], tid)]

\* effect of Delete: the thread is gone
Deleted(tid) == [l \in BoxLabels |-> Without(mailbox[l], tid)]

Mailbox(m) == [l \in BoxLabels |-> [j \in 1..m |-> <<l, j>>]]

\* ------------------------------------------------------------------------
\* Inputs
\* ------------------------------------------------------------------------
\* max_per_category values of a request body: invalid below, the sentinel 0,
\* small caps, invalid above
CapInputs == ((-1)..MaxCap) \cup {MaxRequestCap + 1}
\* max values of a direct listing: non-positive, small, around the page ceiling
SmallMaxes == (-1)..MaxCap
LargeMaxes == {maxPerPage - 1, maxPerPage, maxPerPage + 1, 2 * maxPerPage, 2 * maxPerPage + 1}
LargeBox == 2 * maxPerPage + 1

\* CleanCategories tells TRASH from every other label and nothing else, so the
\* two category labels are interchangeable: of two requests that differ by
\* swapping them, the one that names CATEGORY_SOCIAL first is taken
NamesSocialFirst(s) ==
  \A j \in 1..Len(s) :
    s[j] = "CATEGORY_PROMOTIONS" => \E n \in 1..(j - 1) : s[n] = "CATEGORY_SOCIAL"
CategoryInputs == {s \in SeqsUpTo(ModelLabels, MaxCats) : NamesSocialFirst(s)}

NoSummary == <<>>
NoErr == <<>>

\* the router before any request
NoRequest == [route |-> "", headers |-> {}, granted |-> FALSE, panics |-> FALSE]
NoResponse == [status |-> 0, type |-> "", body |-> {}, size |-> 0]
RouterIdle ==
  /\ request = NoRequest /\ response = NoResponse
  /\ stage = "idle" /\ log = <<>> /\ served = 0
  /\ requestID = "" /\ headerID = ""

\* no lister pair under comparison
NoRun == [calls |-> <<>>, threads |-> <<>>, err |-> <<>>, pageToken |-> 0, ran |-> FALSE]
\* a connection slot without a request
NoConn == [path |-> "", panics |-> FALSE, at |-> "out"]
\* a goroutine that has not called into the logger package
NoCaller == [op |-> "", builds |-> FALSE, at |-> "idle", got |-> ""]
SideIdle ==
  /\ first = NoRun
  /\ active = 0
  /\ conns = [r \in 1..MaxConns |-> NoConn]
  /\ zapLog = "nil"
  /\ once = "fresh"
  /\ callers = [g \in 1..MaxCallers |-> NoCaller]

InitLocals ==
  /\ categories = <<>> /\ maxPerCat = 0 /\ idx = 0
  /\ result = <<>> /\ total = 0 /\ completed = TRUE /\ reason = ""
  /\ ids = <<>> /\ i = 0
  /\ allThreads = <<>> /\ pageToken = 0 /\ pageCount = 0 /\ totalFetched = 0
  /\ status = 0 /\ summary = NoSummary /\ err = NoErr /\ threads = <<>>
  /\ calls = <<>>
  /\ faults = 0
  /\ mailbox0 = mailbox

\* a POST /api/v1/clean request arrives
InitClean ==
  /\ entry = "Clean"
  /\ header \in BOOLEAN
  /\ conf \in BOOLEAN
  /\ svc \in BOOLEAN
  /\ req \in [MaxPerCategory : CapInputs, Categories : CategoryInputs]
  /\ provider \in Providers
  /\ mailbox \in {Mailbox(m) : m \in 0..MaxThreads}
  /\ pc = "RouteClean"
  /\ categoryLabel = "" /\ max = 0
  /\ InitLocals
  /\ RouterIdle
  /\ SideIdle

\* a lister is invoked directly
InitList ==
  /\ entry \in {"ListCategoryThreads", "ListTrashThreads"}
  /\ header = TRUE /\ conf = TRUE /\ svc = TRUE
  /\ req = [MaxPerCategory |-> 0, Categories |-> <<>>]
  /\ provider \in Providers
  /\ \/ /\ mailbox \in {Mailbox(m) : m \in 0..MaxThreads}
        /\ max \in SmallMaxes \cup LargeMaxes
     \/ /\ provider # "arbitrary"
        /\ mailbox = Mailbox(LargeBox)
        /\ max \in LargeMaxes
  /\ categoryLabel \in (IF entry = "ListTrashThreads" THEN {"TRASH"} ELSE BoxLabels)
  /\ pc = entry
  /\ InitLocals
  /\ RouterIdle
  /\ SideIdle

Init == InitClean \/ InitList

\* ------------------------------------------------------------------------
\* service.IsAuthError and the handlers
\* ------------------------------------------------------------------------
IsAuthError(e) ==
  IF e = NoErr THEN FALSE
  ELSE \E j \in 1..Len(e) : e[j] \in AuthMarkers

BindOKUnbounded(r) ==
  /\ r.MaxPerCategory >= 0
  /\ Len(r.Categories) >= 1
  /\ \A j \in 1..Len(r.Categories) : r.Categories[j] \in ValidLabels

\* binding tags of CleanRequest, as c.ShouldBindJSON checks them
BindOK(r) ==
  /\ r.MaxPerCategory >= 0
  /\ r.MaxPerCategory <= MaxRequestCap
  /\ Len(r.Categories) >= 1
  /\ \A j \in 1..Len(r.Categories) : r.Categories[j] \in ValidLabels

EffectiveCapLiteral(m) == m

\* the cap Clean passes on: 0 stands for "unlimited"
EffectiveCap(m) == IF m = 0 THEN SentinelCap ELSE m

\* Clean after CleanCategories returned (s, e)
Respond(s, e) ==
  /\ pc' = "done"
  /\ summary' = s
  /\ err' = e
  /\ status' = IF e # NoErr
                THEN IF IsAuthError(e) THEN StatusUnauthorized ELSE StatusInternalServerError
                ELSE StatusOK
  /\ UNCHANGED threads

\* the route handler of POST /api/v1/clean, up to h.Clean(c)
RouteClean ==
  /\ pc = "RouteClean"
  /\ IF ~header
     THEN /\ status' = StatusUnauthorized /\ pc' = "done"
     ELSE IF ~conf \/ ~svc
     THEN /\ status' = StatusInternalServerError /\ pc' = "done"
     ELSE /\ pc' = "Clean" /\ UNCHANGED status
  /\ UNCHANGED <<routerVars, sideVars, inputVars, mailbox, faults, cleanVars, batchVars, listVars, summary, err,
                 threads, calls>>

\* CleanHandler.Clean, up to the call of CleanCategories
Clean ==
  /\ pc = "Clean"
  /\ IF ~BindOK(req)
     THEN /\ status' = StatusBadRequest /\ pc' = "done"
          /\ UNCHANGED <<categories, maxPerCat>>
     ELSE /\ categories' = req.Categories
          /\ maxPerCat' = EffectiveCap(req.MaxPerCategory)
          /\ pc' = "CleanCategories"
          /\ UNCHANGED status
  /\ UNCHANGED <<routerVars, sideVars, inputVars, mailbox, faults, idx, result, total, completed, reason,
                 batchVars, listVars, summary, err, threads, calls>>

\* ------------------------------------------------------------------------
\* service.CleanerService.CleanCategories
\* ------------------------------------------------------------------------
LabelReversed == categories[Len(categories) + 1 - idx]

\* `label` of `for _, label := range categories`
Label == categories[idx]

CleanSummary ==
  [PerCategoryDeleted |-> result, TotalDeleted |-> total,
   Completed |-> completed, Reason |-> reason]

PutIfPositive(m, key, v) ==
  IF v = 0 THEN m ELSE [l \in DOMAIN m \cup {key} |-> IF l = key THEN v ELSE m[l]]

\* result[label] = deleted
Put(m, key, v) == [l \in DOMAIN m \cup {key} |-> IF l = key THEN v ELSE m[l]]

\* `if label == "TRASH"` before the listing, the batch operation and the estimate
ListerFor(label) == IF label = "TRASH" THEN "ListTrashThreads" ELSE "ListCategoryThreads"

BatchForSwapped(label) ==
  IF label = "TRASH" THEN "BatchTrashThreads" ELSE "BatchDeleteThreadsPermanently"

BatchFor(label) ==
  IF label = "TRASH" THEN "BatchDeleteThreadsPermanently" ELSE "BatchTrashThreads"

EstimateFor(label) ==
  IF label = "TRASH" THEN "EstimateTrashThreads" ELSE "EstimateCategoryThreads"

\* entry: the locals before the loop
CleanCategoriesEnter ==
  /\ pc = "CleanCategories"
  /\ result' = <<>>
  /\ total' = 0
  /\ completed' = TRUE
  /\ reason' = ReasonAll
  /\ idx' = 1
  /\ pc' = "range"
  /\ UNCHANGED <<routerVars, sideVars, inputVars, mailbox, faults, categories, maxPerCat, batchVars, listVars,
                 outVars, calls>>

\* head of `for _, label := range categories`: call the lister of the next
\* label, or return the summary when the range is exhausted
CleanCategoriesRange ==
  /\ pc = "range"
  /\ IF idx > Len(categories)
     THEN /\ Respond(<<CleanSummary>>, NoErr)
          /\ UNCHANGED listVars
     ELSE /\ pc' = ListerFor(Label)
          /\ categoryLabel' = Label
          /\ max' = maxPerCat
          /\ allThreads' = <<>>
          /\ pageToken' = 0
          /\ pageCount' = 0
          /\ totalFetched' = 0
          /\ UNCHANGED outVars
  /\ UNCHANGED <<routerVars, sideVars, inputVars, mailbox, faults, cleanVars, batchVars, calls>>

\* a lister returned (ts, e) to its caller
ListReturn(ts, e) ==
  IF entry # "Clean"
  THEN /\ pc' = "done"
       /\ threads' = ts
       /\ err' = e
       /\ UNCHANGED <<status, summary, batchVars>>
  ELSE IF e # NoErr
  THEN /\ Respond(NoSummary, e)
       /\ UNCHANGED batchVars
  ELSE /\ ids' = ts
       /\ i' = 1
       /\ pc' = BatchFor(Label)
       /\ UNCHANGED outVars

\* after the cap check or the estimate: pause, then the next label
NextLabel(history) ==
  /\ calls' = Append(history, Pause(idx, Label))
  /\ idx' = idx + 1
  /\ pc' = "range"

CapReachedStrict(deleted, cap) == deleted > cap

CapReachedOrIncomplete(deleted, cap) == deleted >= cap \/ ~completed

\* `if int64(deleted) >= maxPerCat`
CapReached(deleted, cap) == deleted >= cap

CapReasonKeepingEarlier(old) == IF old = ReasonAll THEN ReasonMax ELSE old

\* the reason the cap check writes over the one set so far
CapReason(old) == ReasonMax

EstimateReasonUnwritten(old) == old

EstimateReasonKeepingEarlier(old) == IF old = ReasonAll THEN ReasonRemaining ELSE old

\* the reason a positive estimate writes over the one set so far
EstimateReason(old) == ReasonRemaining

\* the batch operation succeeded: record the count, then the cap check
Tally(history) ==
  LET deleted == Len(ids)
  IN /\ result' = Put(result, Label, deleted)
     /\ total' = total + deleted
     /\ IF CapReached(deleted, maxPerCat)
        THEN /\ completed' = FALSE
             /\ reason' = CapReason(reason)
             /\ NextLabel(history)
        ELSE /\ pc' = EstimateFor(Label)
             /\ calls' = history
             /\ UNCHANGED <<completed, reason, idx>>
     /\ UNCHANGED <<categories, maxPerCat, outVars>>

BatchReturnIgnoringError(e, history) == Tally(history)

\* a batch operation returned e to CleanCategories; history is the call
\* history including the batch's last call
BatchReturn(e, history) ==
  IF e # NoErr
  THEN /\ Respond(NoSummary, e)
       /\ calls' = history
       /\ UNCHANGED cleanVars
  ELSE Tally(history)

\* the estimate call returned res to CleanCategories
EstimateReturn(res, history) ==
  /\ IF res.err = NoErr /\ res.estimate > 0
     THEN /\ completed' = FALSE
          /\ reason' = EstimateReason(reason)
     ELSE UNCHANGED <<completed, reason>>
  /\ NextLabel(history)
  /\ UNCHANGED <<categories, maxPerCat, result, total, outVars>>

\* ------------------------------------------------------------------------
\* gmail.Service: listers (one loop iteration per step)
\* ------------------------------------------------------------------------
RateLimitPauseSkipped(history, k, label) == history

\* `time.Sleep(200 * time.Millisecond)` at the end of a loop iteration that did
\* not break
RateLimitPause(history, k, label) == Append(history, Sleep(k, label))

CategoryPageSizeUncapped(m, fetched) == m - fetched

\* the page size ListCategoryThreads asks for
CategoryPageSize(m, fetched) ==
  LET remainingNeeded == m - fetched
  IN IF remainingNeeded < maxPerPage THEN remainingNeeded ELSE maxPerPage

CategoryListDoneIgnoringMax(next, fetched, m, pageThreadCount) ==
  next = 0 \/ pageThreadCount = 0

CategoryListDoneIgnoringEmpty(next, fetched, m, pageThreadCount) ==
  next = 0 \/ fetched >= m

CategoryListDoneOnTokenOnly(next, fetched, m, pageThreadCount) == next = 0

\* the break condition of ListCategoryThreads
CategoryListDone(next, fetched, m, pageThreadCount) ==
  next = 0 \/ fetched >= m \/ pageThreadCount = 0

CategoryListFailedPartial(all) == all

\* the threads ListCategoryThreads returns with an error: `return nil, fmt.Errorf(...)`
CategoryListFailed(all) == <<>>

ListCategoryThreads ==
  /\ pc = "ListCategoryThreads"
  /\ LET pageSize == CategoryPageSize(max, totalFetched)
     IN \E res \in ListResponses(categoryLabel, pageSize, pageToken) :
          LET call == ListCall(idx, categoryLabel, pageSize, pageToken, res)
              pageThreadCount == Len(res.threads)
              fetched == totalFetched + pageThreadCount
          IN /\ pageCount' = pageCount + 1
             /\ faults' = Faults(res, HonestPage(categoryLabel, pageSize, pageToken))
             /\ IF res.err # NoErr
                THEN /\ ListReturn(CategoryListFailed(allThreads),
                                     Wrap("failed to list category threads", res.err))
                     /\ calls' = Append(calls, call)
                     /\ UNCHANGED <<allThreads, pageToken, totalFetched>>
                ELSE /\ allThreads' = allThreads \o res.threads
                     /\ totalFetched' = fetched
                     /\ pageToken' = res.next
                     /\ IF CategoryListDone(res.next, fetched, max, pageThreadCount)
                        THEN /\ ListReturn(allThreads \o res.threads, NoErr)
                             /\ calls' = Append(calls, call)
                        ELSE /\ calls' = RateLimitPause(Append(calls, call), idx, categoryLabel)
                             /\ UNCHANGED <<pc, batchVars, outVars>>
  /\ UNCHANGED <<routerVars, sideVars, inputVars, mailbox, cleanVars, categoryLabel, max>>

TrashPageSizeUncapped(m, fetched) == m - fetched

\* the page size ListTrashThreads asks for
TrashPageSize(m, fetched) ==
  LET remainingNeeded == m - fetched
  IN IF remainingNeeded < maxPerPage THEN remainingNeeded ELSE maxPerPage

TrashListDoneIgnoringMax(next, fetched, m, pageThreadCount) ==
  next = 0 \/ pageThreadCount = 0

\* the break condition of ListTrashThreads
TrashListDone(next, fetched, m, pageThreadCount) ==
  next = 0 \/ fetched >= m \/ pageThreadCount = 0

\* the threads ListTrashThreads returns with an error: `return nil, fmt.Errorf(...)`
TrashListFailed(all) == <<>>

ListTrashThreads ==
  /\ pc = "ListTrashThreads"
  /\ LET pageSize == TrashPageSize(max, totalFetched)
     IN \E res \in ListResponses("TRASH", pageSize, pageToken) :
          LET call == ListCall(idx, "TRASH", pageSize, pageToken, res)
              pageThreadCount == Len(res.threads)
              fetched == totalFetched + pageThreadCount
          IN /\ pageCount' = pageCount + 1
             /\ faults' = Faults(res, HonestPage("TRASH", pageSize, pageToken))
             /\ IF res.err # NoErr
                THEN /\ ListReturn(TrashListFailed(allThreads),
                                     Wrap("failed to list trash threads", res.err))
                     /\ calls' = Append(calls, call)
                     /\ UNCHANGED <<allThreads, pageToken, totalFetched>>
                ELSE /\ allThreads' = allThreads \o res.threads
                     /\ totalFetched' = fetched
                     /\ pageToken' = res.next
                     /\ IF TrashListDone(res.next, fetched, max, pageThreadCount)
                        THEN /\ ListReturn(allThreads \o res.threads, NoErr)
                             /\ calls' = Append(calls, call)
                        ELSE /\ calls' = RateLimitPause(Append(calls, call), idx, "TRASH")
                             /\ UNCHANGED <<pc, batchVars, outVars>>
  /\ UNCHANGED <<routerVars, sideVars, inputVars, mailbox, cleanVars, categoryLabel, max>>

\* ------------------------------------------------------------------------
\* gmail.Service: batch operations (one thread per step)
\* ------------------------------------------------------------------------
ThreadAtFirst(s, n) == s[1]

ThreadAtReversed(s, n) == s[Len(s) + 1 - n]

\* `for i, threadID := range threadIDs`: the thread of the n-th iteration
ThreadAt(s, n) == s[n]

BatchTrashThreads ==
  /\ pc = "BatchTrashThreads"
  /\ IF Len(ids) = 0
     THEN /\ BatchReturn(NoErr, calls)
          /\ UNCHANGED <<mailbox, faults, i>>
     ELSE \E e \in MutateResponses :
            LET tid == ThreadAt(ids, i)
                history == Append(calls, ModifyCall(idx, Label, tid, "TRASH", "INBOX", e))
            IN IF e # NoErr
               THEN /\ BatchReturn(Wrap("failed to trash thread", e), history)
                    /\ faults' = faults + 1
                    /\ UNCHANGED <<mailbox, i>>
               ELSE /\ mailbox' = Trashed(tid)
                    /\ UNCHANGED faults
                    /\ i' = i + 1
                    /\ IF i = Len(ids)
                       THEN BatchReturn(NoErr, history)
                       ELSE /\ calls' = history
                            /\ UNCHANGED <<pc, cleanVars, outVars>>
  /\ UNCHANGED <<routerVars, sideVars, inputVars, ids, listVars>>

BatchDeleteThreadsPermanently ==
  /\ pc = "BatchDeleteThreadsPermanently"
  /\ IF Len(ids) = 0
     THEN /\ BatchReturn(NoErr, calls)
          /\ UNCHANGED <<mailbox, faults, i>>
     ELSE \E e \in MutateResponses :
            LET tid == ThreadAt(ids, i)
                history == Append(calls, DeleteCall(idx, Label, tid, e))
            IN IF e # NoErr
               THEN /\ BatchReturn(Wrap("failed to permanently delete thread", e), history)
                    /\ faults' = faults + 1
                    /\ UNCHANGED <<mailbox, i>>
               ELSE /\ mailbox' = Deleted(tid)
                    /\ UNCHANGED faults
                    /\ i' = i + 1
                    /\ IF i = Len(ids)
                       THEN BatchReturn(NoErr, history)
                       ELSE /\ calls' = history
                            /\ UNCHANGED <<pc, cleanVars, outVars>>
  /\ UNCHANGED <<routerVars, sideVars, inputVars, ids, listVars>>

\* ------------------------------------------------------------------------
\* gmail.Service: estimates
\* ------------------------------------------------------------------------
EstimateCategoryThreads ==
  /\ pc = "EstimateCategoryThreads"
  /\ \E res \in EstimateResponses(Label) :
       /\ EstimateReturn(res, Append(calls, EstimateCall(idx, Label, res)))
       /\ faults' = Faults(res, HonestEstimate(Label))
  /\ UNCHANGED <<routerVars, sideVars, inputVars, mailbox, batchVars, listVars>>

EstimateTrashThreads ==
  /\ pc = "EstimateTrashThreads"
  /\ \E res \in EstimateResponses("TRASH") :
       /\ EstimateReturn(res, Append(calls, EstimateCall(idx, "TRASH", res)))
       /\ faults' = Faults(res, HonestEstimate("TRASH"))
  /\ UNCHANGED <<routerVars, sideVars, inputVars, mailbox, batchVars, listVars>>

Next ==
  \/ RouteClean
  \/ Clean
  \/ CleanCategoriesEnter
  \/ CleanCategoriesRange
  \/ ListCategoryThreads
  \/ ListTrashThreads
  \/ BatchTrashThreads
  \/ BatchDeleteThreadsPermanently
  \/ EstimateCategoryThreads
  \/ EstimateTrashThreads

Spec == Init /\ [][Next]_vars

\* ------------------------------------------------------------------------
\* setupRouter: one request at a time through the middleware stack
\*   RequestIDMiddleware -> SecurityHeadersMiddleware ->
\*   AdvancedRecoveryWithLogger -> DetailedRequestResponseLogger ->
\*   MetricsMiddleware -> handler
\* A text is modelled by the set of values it carries; a log entry by its
\* message and the values of its fields.
\* ------------------------------------------------------------------------
CallbackPath == "/auth/callback"
CleanPath == "/api/v1/clean"
Routes == {CallbackPath, CleanPath}

AccessToken == "access-token"
RefreshToken == "refresh-token"
AuthCode == "auth-code"
Masked == "[MASKED]"
ClientID == "client-id"
JSONType == "application/json"
HTMLType == "text/html"

SafeHeaders ==
  {"User-Agent", "Referer", "Accept", "Accept-Language", "Accept-Encoding", "Content-Type"}

\* header lines a request can carry
HeaderInputs ==
  {<<"X-Access-Token", AccessToken>>, <<"Authorization", AccessToken>>,
   <<"Accept", JSONType>>, <<"User-Agent", "browser">>, <<"X-Request-ID", ClientID>>}

\* granted: Google accepts the code of a callback; panics: the handler panics
Requests ==
  {r \in [route : Routes, headers : SUBSET HeaderInputs, granted : BOOLEAN, panics : BOOLEAN] :
     r.route = CleanPath => r.granted}

\* body lengths on both sides of the logger's limit
BodySizes == {BodyLogLimit - 1, BodyLogLimit}

\* generateRequestID(): 16 random bytes, so the value differs from call to call
\* and from what a client sent
generateRequestID(caller) ==
  IF caller = "RequestIDMiddleware" THEN "generated-1" ELSE "generated-2"

\* c.GetHeader(name): "" when the header is absent
GetHeader(name) ==
  IF \E p \in request.headers : p[1] = name
  THEN (CHOOSE p \in request.headers : p[1] = name)[2]
  ELSE ""

Entry(msg, texts) == [msg |-> msg, texts |-> texts]
HasHeader(name) == \E p \in request.headers : p[1] = name
Body(code, type, texts, size) ==
  [status |-> code, type |-> type, body |-> texts, size |-> size]

Arrive ==
  /\ stage = "idle"
  /\ served < MaxRequests
  /\ request' \in Requests
  /\ response' = NoResponse
  /\ stage' = "RequestIDMiddleware"
  /\ requestID' = "" /\ headerID' = ""
  /\ UNCHANGED <<log, served, serviceVars, sideVars>>

\* sets the request id in the context and the response header; logs nothing
RequestIDMiddleware ==
  /\ stage = "RequestIDMiddleware"
  /\ LET id == IF GetHeader("X-Request-ID") = ""
               THEN generateRequestID("RequestIDMiddleware")
               ELSE GetHeader("X-Request-ID")
     IN requestID' = id /\ headerID' = id
  /\ stage' = "SecurityHeadersMiddleware"
  /\ UNCHANGED <<request, response, log, served, serviceVars, sideVars>>

\* logSecurityEvents: the only entry a well-formed query leads to
SecurityHeadersMiddleware ==
  /\ stage = "SecurityHeadersMiddleware"
  /\ log' = IF HasHeader("User-Agent") THEN log
            ELSE Append(log, Entry("Request with empty User-Agent", {}))
  /\ stage' = "logDetailedRequest"
  /\ UNCHANGED <<request, response, served, idVars, serviceVars, sideVars>>

MaskedUnlessSafe(headers) ==
  {IF p[1] \in SafeHeaders THEN p[2] ELSE Masked : p \in headers}

logDetailedRequest ==
  /\ stage = "logDetailedRequest"
  /\ log' = Append(log, Entry("HTTP Request Started (Detailed)",
                              MaskedUnlessSafe(request.headers)
                                \cup (IF request.route = CallbackPath THEN {AuthCode} ELSE {})))
  /\ stage' = "handler"
  /\ UNCHANGED <<request, response, served, serviceVars, sideVars>>

\* DetailedRequestResponseLogger up to c.Next(): its own request id, then the
\* request entry
DetailedRequestResponseLogger ==
  /\ logDetailedRequest
  /\ LET id == generateRequestID("DetailedRequestResponseLogger")
     IN requestID' = id /\ headerID' = id

\* GET /auth/callback
AuthCallback ==
  /\ stage = "handler"
  /\ ~request.panics
  /\ request.route = CallbackPath
  /\ LET isFetchRequest == <<"Accept", JSONType>> \in request.headers
     IN \E n \in BodySizes :
          response' =
            IF ~request.granted
            THEN IF isFetchRequest
                 THEN Body(StatusBadRequest, JSONType, {"error"}, n)
                 ELSE Body(StatusTemporaryRedirect, "", {}, 0)
            ELSE IF isFetchRequest
                 THEN Body(StatusOK, JSONType, {AccessToken, RefreshToken, "user"}, n)
                 ELSE Body(StatusOK, HTMLType, {AccessToken, "user"}, n)
  /\ stage' = "MetricsMiddleware"
  /\ UNCHANGED <<request, log, served, idVars, serviceVars, sideVars>>

\* POST /api/v1/clean: the route handler and CleanHandler.Clean, by their response
CleanRoute ==
  /\ stage = "handler"
  /\ ~request.panics
  /\ request.route = CleanPath
  /\ \E n \in BodySizes :
       IF ~HasHeader("X-Access-Token")
       THEN response' = Body(StatusUnauthorized, JSONType, {"error"}, n)
       ELSE \E st \in {StatusOK, StatusBadRequest, StatusUnauthorized,
                       StatusInternalServerError} :
              response' = Body(st, JSONType, IF st = StatusOK THEN {"summary"} ELSE {"error"}, n)
  /\ stage' = "MetricsMiddleware"
  /\ UNCHANGED <<request, log, served, idVars, serviceVars, sideVars>>

\* the handler panics: the stack unwinds to AdvancedRecoveryWithLogger
HandlerPanics ==
  /\ stage = "handler"
  /\ request.panics
  /\ stage' = "handlePanic"
  /\ UNCHANGED <<request, response, log, served, idVars, serviceVars, sideVars>>

\* logMetrics after the handler returned
MetricsMiddleware ==
  /\ stage = "MetricsMiddleware"
  /\ log' = Append(log, Entry("Request metrics", {request.route}))
  /\ stage' = "logDetailedResponse"
  /\ UNCHANGED <<request, response, served, idVars, serviceVars, sideVars>>

logDetailedResponse ==
  /\ stage = "logDetailedResponse"
  /\ log' = Append(log, Entry("HTTP Request Completed (Detailed)",
                              IF response.size > 0 /\ response.size < BodyLogLimit
                              THEN IF response.type = JSONType
                                   THEN response.body
                                   ELSE {"response_body_size"}
                              ELSE {}))
  /\ stage' = "idle"
  /\ served' = served + 1
  /\ UNCHANGED <<request, response, idVars, serviceVars, sideVars>>

MaskedIfAuthorization(headers) ==
  {IF p[1] = "Authorization" THEN Masked ELSE p[2] : p \in headers}

handlePanic ==
  /\ stage = "handlePanic"
  /\ log' = Append(log, Entry("Panic recovered", MaskedIfAuthorization(request.headers)))
  /\ response' = Body(StatusInternalServerError, JSONType, {"error"}, BodyLogLimit - 1)
  /\ stage' = "idle"
  /\ served' = served + 1
  /\ UNCHANGED <<request, idVars, serviceVars, sideVars>>

RouterInit ==
  /\ RouterIdle
  /\ entry = "Router"
  /\ header = FALSE /\ conf = FALSE /\ svc = FALSE
  /\ req = [MaxPerCategory |-> 0, Categories |-> <<>>]
  /\ provider = "wellBehaved"
  /\ mailbox = Mailbox(0)
  /\ pc = "done"
  /\ categoryLabel = "" /\ max = 0
  /\ InitLocals
  /\ SideIdle

RouterNext ==
  \/ Arrive
  \/ RequestIDMiddleware
  \/ SecurityHeadersMiddleware
  \/ DetailedRequestResponseLogger
  \/ AuthCallback
  \/ CleanRoute
  \/ HandlerPanics
  \/ MetricsMiddleware
  \/ logDetailedResponse
  \/ handlePanic

RouterSpec == RouterInit /\ [][RouterNext]_vars

\* ------------------------------------------------------------------------
\* The two listers side by side: ListTrashThreads(max) runs to its end, then
\* ListCategoryThreads("TRASH", max) runs against the same mailbox and is
\* answered, page by page, as the trash lister was.
\* ------------------------------------------------------------------------
IsPage(c) == c.op = "list"
Pages(cs) == SelectSeq(cs, IsPage)

\* the token the n-th page of the recorded run carried
RecordedNext(n) ==
  LET theirs == Pages(first.calls)
  IN IF n < Len(theirs) THEN theirs[n + 1].token ELSE first.pageToken

\* the page just answered was answered as the recorded run's page of that number
AnsweredAsRecorded ==
  LET mine == Pages(calls')
      theirs == Pages(first.calls)
      n == Len(mine)
  IN /\ n <= Len(theirs)
     /\ mine[n].fail = theirs[n].fail
     /\ mine[n].got = theirs[n].got
     /\ mine[n].cause = theirs[n].cause
     /\ ~mine[n].fail => pageToken' = RecordedNext(n)

\* the trash lister returned: keep what it did and call the category lister
CallCategoryLister ==
  /\ entry = "ListTrashThreads"
  /\ pc = "done"
  /\ first' = [calls |-> calls, threads |-> threads, err |-> err,
               pageToken |-> pageToken, ran |-> TRUE]
  /\ entry' = "ListCategoryThreads"
  /\ categoryLabel' = "TRASH"
  /\ pc' = "ListCategoryThreads"
  /\ allThreads' = <<>> /\ pageToken' = 0 /\ pageCount' = 0 /\ totalFetched' = 0
  /\ threads' = <<>> /\ err' = NoErr
  /\ calls' = <<>>
  /\ faults' = 0
  /\ UNCHANGED <<header, conf, svc, req, provider, mailbox0, mailbox, cleanVars, batchVars,
                 max, status, summary, routerVars, connVars, loggerVars>>

ReplayedCategoryLister ==
  /\ first.ran
  /\ ListCategoryThreads
  /\ AnsweredAsRecorded

ListerPairInit == InitList /\ entry = "ListTrashThreads"

ListerPairNext ==
  \/ ListTrashThreads
  \/ CallCategoryLister
  \/ ReplayedCategoryLister

ListerPairSpec == ListerPairInit /\ [][ListerPairNext]_vars

\* ------------------------------------------------------------------------
\* MetricsMiddleware under concurrent requests: each request is a goroutine
\* that passes through the middleware statement by statement; increments and
\* decrements are atomic under the collector's mutex.
\*   out -> entered -> (counted -> after | panicking) -> leaving -> out
\*   out -> entered -> skipped -> out                  (health-check paths)
\* ------------------------------------------------------------------------
HealthPath == "/health"
Paths == {CleanPath, HealthPath}

\* isHealthCheckPath, on the paths of the model
isHealthCheckPath(path) == path = HealthPath

At(r, at) == [conns EXCEPT ![r].at = at]

\* gin calls the middleware function for an arriving request
EnterMetrics(r) ==
  /\ conns[r].at = "out"
  /\ \E path \in Paths : \E panics \in BOOLEAN :
       conns' = [conns EXCEPT ![r] = [path |-> path, panics |-> panics, at |-> "entered"]]
  /\ UNCHANGED <<active, serviceVars, routerVars, pairVars, loggerVars>>

\* `if isHealthCheckPath(...) { c.Next(); return }`, up to the call of c.Next()
SkipHealthCheck(r) ==
  /\ conns[r].at = "entered"
  /\ isHealthCheckPath(conns[r].path)
  /\ conns' = At(r, "skipped")
  /\ UNCHANGED <<active, serviceVars, routerVars, pairVars, loggerVars>>

\* the skipped request's c.Next() returns or panics, and the function is left
LeaveSkipped(r) ==
  /\ conns[r].at = "skipped"
  /\ conns' = [conns EXCEPT ![r] = NoConn]
  /\ UNCHANGED <<active, serviceVars, routerVars, pairVars, loggerVars>>

\* globalMetrics.incrementActiveConnections(), the defer, and the call of c.Next()
incrementActiveConnections(r) ==
  /\ conns[r].at = "entered"
  /\ ~isHealthCheckPath(conns[r].path)
  /\ active' = active + 1
  /\ conns' = At(r, "counted")
  /\ UNCHANGED <<serviceVars, routerVars, pairVars, loggerVars>>

\* c.Next() returns: recordRequest and logMetrics follow
NextReturns(r) ==
  /\ conns[r].at = "counted"
  /\ ~conns[r].panics
  /\ conns' = At(r, "after")
  /\ UNCHANGED <<active, serviceVars, routerVars, pairVars, loggerVars>>

\* a handler below c.Next() panics: the stack unwinds through the middleware
NextPanics(r) ==
  /\ conns[r].at = "counted"
  /\ conns[r].panics
  /\ conns' = At(r, "panicking")
  /\ UNCHANGED <<active, serviceVars, routerVars, pairVars, loggerVars>>

DeferredOnReturnOnly(at) == at = "after"

\* `defer globalMetrics.decrementActiveConnections()`: the deferred call runs on
\* every way out of the function, the return and the panic
Deferred(at) == at \in {"after", "panicking"}

\* the function is being left: the deferred decrement runs
decrementActiveConnections(r) ==
  /\ conns[r].at \in {"after", "panicking"}
  /\ active' = IF Deferred(conns[r].at) THEN active - 1 ELSE active
  /\ conns' = At(r, "leaving")
  /\ UNCHANGED <<serviceVars, routerVars, pairVars, loggerVars>>

\* control is back in the caller (the outer middleware or its recover)
LeaveMetrics(r) ==
  /\ conns[r].at = "leaving"
  /\ conns' = [conns EXCEPT ![r] = NoConn]
  /\ UNCHANGED <<active, serviceVars, routerVars, pairVars, loggerVars>>

ConnInit ==
  /\ RouterIdle
  /\ entry = "Metrics"
  /\ header = FALSE /\ conf = FALSE /\ svc = FALSE
  /\ req = [MaxPerCategory |-> 0, Categories |-> <<>>]
  /\ provider = "wellBehaved"
  /\ mailbox = Mailbox(0)
  /\ pc = "done"
  /\ categoryLabel = "" /\ max = 0
  /\ InitLocals
  /\ SideIdle

ConnNext ==
  \E r \in 1..MaxConns :
    \/ EnterMetrics(r)
    \/ SkipHealthCheck(r)
    \/ LeaveSkipped(r)
    \/ incrementActiveConnections(r)
    \/ NextReturns(r)
    \/ NextPanics(r)
    \/ decrementActiveConnections(r)
    \/ LeaveMetrics(r)

ConnSpec == ConnInit /\ [][ConnNext]_vars

\* ------------------------------------------------------------------------
\* pkg/logger: the package variables `log` and `once`, and goroutines that
\* call InitLogger and L in any order. zapLog is "nil" or names the logger it
\* points to. once.Do(f) runs f for the first caller only and makes every
\* other caller wait until f is over.
\* ------------------------------------------------------------------------
LoggerOps == {"InitLogger", "L"}

\* InitLogger(config) or L() is called; builds: NewLogger succeeds on the
\* configuration the call would pass (the argument, or the environment)
CallLogger(g) ==
  /\ callers[g].at \in {"idle", "returned"}
  /\ \E op \in LoggerOps : \E builds \in BOOLEAN :
       callers' = [callers EXCEPT ![g] = [op |-> op, builds |-> builds,
                                           at |-> "called", got |-> ""]]
  /\ UNCHANGED <<zapLog, once, serviceVars, routerVars, pairVars, connVars>>

\* once.Do: the first caller starts running the function
OnceDoRuns(g) ==
  /\ callers[g].at = "called"
  /\ once = "fresh"
  /\ once' = "running"
  /\ callers' = [callers EXCEPT ![g].at = "inOnce"]
  /\ UNCHANGED <<zapLog, serviceVars, routerVars, pairVars, connVars>>

\* once.Do: the function has been run before; return without running it
OnceDoSkips(g) ==
  /\ callers[g].at = "called"
  /\ once = "done"
  /\ callers' = [callers EXCEPT ![g].at = "afterOnce"]
  /\ UNCHANGED <<zapLog, once, serviceVars, routerVars, pairVars, connVars>>

\* NewLogger(config): (logger, nil) or (nil, err)
NewLogger(builds, name) == IF builds THEN name ELSE "nil"

\* the function InitLogger hands to once.Do: `log, err = NewLogger(config)`
InitLoggerOnce(g) ==
  /\ callers[g].at = "inOnce"
  /\ callers[g].op = "InitLogger"
  /\ zapLog' = NewLogger(callers[g].builds, "configured")
  /\ once' = "done"
  /\ callers' = [callers EXCEPT ![g].at = "afterOnce"]
  /\ UNCHANGED <<serviceVars, routerVars, pairVars, connVars>>

\* the function L hands to once.Do: NewLogger on the environment's
\* configuration, and zap.NewProduction() when that fails
LOnce(g) ==
  /\ callers[g].at = "inOnce"
  /\ callers[g].op = "L"
  /\ zapLog' = IF NewLogger(callers[g].builds, "default") = "nil"
               THEN "production"
               ELSE NewLogger(callers[g].builds, "default")
  /\ once' = "done"
  /\ callers' = [callers EXCEPT ![g].at = "afterOnce"]
  /\ UNCHANGED <<serviceVars, routerVars, pairVars, connVars>>

\* `return err` of InitLogger, `return log` of L
ReturnLogger(g) ==
  /\ callers[g].at = "afterOnce"
  /\ callers' = [callers EXCEPT ![g].at = "returned",
                                ![g].got = IF callers[g].op = "L" THEN zapLog ELSE ""]
  /\ UNCHANGED <<zapLog, once, serviceVars, routerVars, pairVars, connVars>>

LoggerInit ==
  /\ RouterIdle
  /\ entry = "Logger"
  /\ header = FALSE /\ conf = FALSE /\ svc = FALSE
  /\ req = [MaxPerCategory |-> 0, Categories |-> <<>>]
  /\ provider = "wellBehaved"
  /\ mailbox = Mailbox(0)
  /\ pc = "done"
  /\ categoryLabel = "" /\ max = 0
  /\ InitLocals
  /\ SideIdle

LoggerNext ==
  \E g \in 1..MaxCallers :
    \/ CallLogger(g)
    \/ OnceDoRuns(g)
    \/ OnceDoSkips(g)
    \/ InitLoggerOnce(g)
    \/ LOnce(g)
    \/ ReturnLogger(g)

LoggerSpec == LoggerInit /\ [][LoggerNext]_vars

TypeOK ==
  /\ pc \in {"RouteClean", "Clean", "CleanCategories", "range", "ListCategoryThreads",
              "ListTrashThreads", "BatchTrashThreads", "BatchDeleteThreadsPermanently",
              "EstimateCategoryThreads", "EstimateTrashThreads", "done"}
  /\ status \in {0, StatusOK, StatusBadRequest, StatusUnauthorized, StatusInternalServerError}
  /\ completed \in BOOLEAN
  /\ Len(summary) <= 1

\* ------------------------------------------------------------------------
\* Vocabulary of the properties
\* ------------------------------------------------------------------------
IsClean == entry = "Clean"
Listing == pc \in {"ListCategoryThreads", "ListTrashThreads"}
Batching == pc \in {"BatchTrashThreads", "BatchDeleteThreadsPermanently"}
Estimating == pc \in {"EstimateCategoryThreads", "EstimateTrashThreads"}
\* the Clean handler accepted the request and called CleanCategories
Accepted == IsClean /\ pc \notin {"RouteClean", "Clean"} /\ categories # <<>>
\* CleanCategories returned a summary
Returned == IsClean /\ pc = "done" /\ summary # NoSummary
TheSummary == summary[1]

Calls == DOMAIN calls
IsMutation(c) == c.op \in {"modify", "delete"}
IsRemote(c) == c.op \in {"list", "modify", "delete", "estimate"}

RECURSIVE SumOver(_, _)
SumOver(f, S) ==
  IF S = {} THEN 0
  ELSE LET x == CHOOSE y \in S : TRUE IN f[x] + SumOver(f, S \ {x})

CeilDiv(a, b) == (a + b - 1) \div b

\* number of per-thread calls issued for the k-th category
MutationsOf(k) == Cardinality({j \in Calls : calls[j].k = k /\ IsMutation(calls[j])})
\* the post-delete estimate of the k-th category was obtained, and was zero
EstimatedZero(k) ==
  \E j \in Calls : /\ calls[j].op = "estimate" /\ calls[j].k = k
                    /\ ~calls[j].fail /\ calls[j].ret = 0

\* ------------------------------------------------------------------------
\* Properties
\* ------------------------------------------------------------------------

\* C1: in every returned summary, TotalDeleted equals the sum of the values
\* stored in PerCategoryDeleted, also when the request repeats a label.
C1_TotalIsSumOfCounts ==
  Returned =>
    TheSummary.TotalDeleted =
      SumOver(TheSummary.PerCategoryDeleted, DOMAIN TheSummary.PerCategoryDeleted)

\* C2: in every returned summary, Completed is true exactly when no processed
\* category reached the cap and every processed category's post-delete
\* estimate was obtained as zero.
C2_CompletedIffAllChecksPassed ==
  Returned =>
    (TheSummary.Completed <=>
       \A k \in 1..Len(categories) : MutationsOf(k) < maxPerCat /\ EstimatedZero(k))

\* C3: the per-thread call depends only on the label being processed: under
\* TRASH only permanent deletes, under any other label only modifies that add
\* TRASH and remove INBOX.
C3_MutationFollowsLabel ==
  IsClean =>
    \A j \in Calls :
      /\ calls[j].op = "delete" => categories[calls[j].k] = "TRASH"
      /\ calls[j].op = "modify" =>
            /\ categories[calls[j].k] # "TRASH"
            /\ calls[j].add = "TRASH"
            /\ calls[j].remove = "INBOX"

C3_Witness ==
  /\ Returned
  /\ \E j \in Calls : calls[j].op = "delete" /\ ~calls[j].fail
  /\ \E j \in Calls : calls[j].op = "modify" /\ ~calls[j].fail

\* C4: every failed remote call of an invocation (list page, modify, delete,
\* estimate) makes the invocation return an error and no summary.
C4_EveryFailureIsFatal ==
  IsClean =>
    \A j \in Calls :
      calls[j].fail => pc = "done" /\ summary = NoSummary /\ err # NoErr

\* C5: when a list call or a per-thread trash/delete call fails, CleanCategories
\* returns a nil summary and the error, and the failing call is the last thing
\* the invocation does remotely.
C5_ListOrMutationFailureAborts ==
  IsClean =>
    \A j \in Calls :
      (calls[j].fail /\ calls[j].op \in {"list", "modify", "delete"}) =>
        /\ j = Len(calls)
        /\ pc = "done"
        /\ summary = NoSummary
        /\ err # NoErr

C5_Witness ==
  /\ IsClean /\ pc = "done" /\ calls # <<>>
  /\ calls[Len(calls)].fail
  /\ IsMutation(calls[Len(calls)])
  /\ calls[Len(calls)].k = 2
  /\ \E j \in Calls : calls[j].k = 1 /\ IsMutation(calls[j])
  /\ summary = NoSummary /\ err # NoErr

\* C6: in every returned summary, the keys of PerCategoryDeleted are exactly the
\* distinct labels of the request, including labels with a count of zero.
C6_OneKeyPerRequestedLabel ==
  Returned =>
    DOMAIN TheSummary.PerCategoryDeleted = {categories[j] : j \in 1..Len(categories)}

C6_Witness ==
  /\ Returned
  /\ Cardinality(DOMAIN TheSummary.PerCategoryDeleted) = 2
  /\ \E l \in DOMAIN TheSummary.PerCategoryDeleted : TheSummary.PerCategoryDeleted[l] = 0
  /\ \E l \in DOMAIN TheSummary.PerCategoryDeleted : TheSummary.PerCategoryDeleted[l] > 0

\* C7: an accepted request with max_per_category 0 runs with the cap 1,000,000:
\* CleanCategories and the listers get that cap, no page is sized from 0 and
\* the cap check never fires on a cap of 0.
C7_ZeroCapIsSentinel ==
  (Accepted /\ req.MaxPerCategory = 0) =>
    /\ maxPerCat = SentinelCap
    /\ (\E j \in Calls : calls[j].op = "list") => max = SentinelCap
    /\ \A j \in Calls : calls[j].op = "list" => calls[j].size >= 1
    /\ reason # ReasonMax

C7_Witness ==
  /\ Returned /\ req.MaxPerCategory = 0
  /\ \E j \in Calls : calls[j].op = "list" /\ calls[j].size = maxPerPage
  /\ TheSummary.TotalDeleted > 0
  /\ TheSummary.Completed

\* C8: no page request of ListCategoryThreads or ListTrashThreads asks for more
\* than 500 threads.
C8_PageSizeAtMostCeiling ==
  \A j \in Calls : calls[j].op = "list" => calls[j].size <= maxPerPage

C8_Witness ==
  /\ max > maxPerPage
  /\ pageCount >= 2
  /\ \E j \in Calls : calls[j].op = "list" /\ calls[j].size = maxPerPage
  /\ \E j \in Calls : calls[j].op = "list" /\ calls[j].label = "TRASH"
                        /\ calls[j].size = maxPerPage

\* C9 (as stated): for max >= 1, a provider that never fails and fills every
\* page with min(page size, unlisted threads) lets a listing issue at most
\* ceil(max/500) page requests.
C9_FullPagesWithinCeil ==
  (provider # "arbitrary" /\ max >= 1) => pageCount <= CeilDiv(max, maxPerPage)

\* C9 (amended): for max >= 1, a provider that never fails, fills every page
\* with min(page size, unlisted threads) and attaches a continuation token
\* only while threads remain unlisted lets a listing issue at most
\* ceil(max/500) page requests.
C9_WellBehavedWithinCeil ==
  (faults = 0 /\ max >= 1) => pageCount <= CeilDiv(max, maxPerPage)

C9_Witness ==
  /\ faults = 0 /\ pc = "done" /\ ~IsClean
  /\ max = 2 * maxPerPage + 1
  /\ pageCount = 3
  /\ Len(threads) = max

\* C10: a page with zero threads ends the listing: no further page is requested
\* and no pause is taken, and the lister returns what it accumulated, without
\* error, whatever the page's token and however far below max it is.
C10_EmptyPageEndsListing ==
  \A j \in Calls :
    (calls[j].op = "list" /\ ~calls[j].fail /\ calls[j].ret = 0) =>
      /\ j < Len(calls) =>
            ~(calls[j + 1].op \in {"list", "sleep"} /\ calls[j + 1].k = calls[j].k)
      /\ j = Len(calls) =>
            /\ ~Listing
            /\ err = NoErr
            /\ ~IsClean => pc = "done" /\ threads = allThreads
            /\ IsClean => (Batching \/ Estimating) /\ ids = allThreads

C10_Witness ==
  /\ ~IsClean /\ pc = "done" /\ err = NoErr
  /\ calls # <<>>
  /\ calls[Len(calls)].op = "list" /\ calls[Len(calls)].ret = 0
  /\ pageToken # 0
  /\ totalFetched < max
  /\ threads # <<>>

\* ------------------------------------------------------------------------
\* Vocabulary of the properties, continued
\* ------------------------------------------------------------------------
Failed(c) == c.fail /\ c.op \in {"list", "modify", "delete"}

\* the threads the successful list pages among calls[1..n] returned for the
\* k-th category, in order
RECURSIVE ListedIn(_, _)
ListedIn(k, n) ==
  IF n = 0 THEN <<>>
  ELSE ListedIn(k, n - 1)
       \o (IF calls[n].op = "list" /\ calls[n].k = k /\ ~calls[n].fail
           THEN calls[n].got ELSE <<>>)
Listed(k) == ListedIn(k, Len(calls))

RECURSIVE ListedBefore(_)
ListedBefore(k) == IF k <= 1 THEN <<>> ELSE ListedBefore(k - 1) \o Listed(k - 1)

\* the threads of the successful per-thread calls among calls[1..n], in order
RECURSIVE MutatedIn(_)
MutatedIn(n) ==
  IF n = 0 THEN <<>>
  ELSE MutatedIn(n - 1)
       \o (IF IsMutation(calls[n]) /\ ~calls[n].fail THEN <<calls[n].tid>> ELSE <<>>)
Mutated == MutatedIn(Len(calls))

DoneOf(k) ==
  Cardinality({j \in Calls : calls[j].k = k /\ IsMutation(calls[j]) /\ ~calls[j].fail})
EstimatesOf(k) == Cardinality({j \in Calls : calls[j].k = k /\ calls[j].op = "estimate"})
\* the loop body of the k-th category ran to its end
Processed(k) == \E j \in Calls : calls[j].op = "pause" /\ calls[j].k = k
CapHitAt(k) == Processed(k) /\ DoneOf(k) >= maxPerCat
RemainingSetAt(k) ==
  \E j \in Calls : /\ calls[j].op = "estimate" /\ calls[j].k = k
                    /\ ~calls[j].fail /\ calls[j].ret > 0
\* no page held more threads than were asked for
NoOverfullPage == \A j \in Calls : calls[j].op = "list" => calls[j].ret <= calls[j].size
Held(label) == Len(mailbox0[label])

\* C11 (as stated): a single-category request with cap max >= 1, no page larger
\* than asked for: at most max threads are listed and trashed/deleted, and when
\* the label held at least max threads the summary reports exactly max, not
\* completed, with the cap reason.
C11_CapFillsWheneverPagesFit ==
  (Accepted /\ Len(categories) = 1 /\ maxPerCat >= 1 /\ NoOverfullPage) =>
    /\ Len(Listed(1)) <= maxPerCat
    /\ MutationsOf(1) <= maxPerCat
    /\ (Returned /\ Held(categories[1]) >= maxPerCat) =>
          /\ Len(Listed(1)) = maxPerCat
          /\ DoneOf(1) = maxPerCat
          /\ ~TheSummary.Completed
          /\ TheSummary.Reason = ReasonMax

\* C11 (amended): as above, but the second half only against a provider that
\* never fails, fills every page with min(page size, unlisted threads) and
\* attaches a continuation token while threads remain unlisted.
C11_CapFillsWhenWellBehaved ==
  (Accepted /\ Len(categories) = 1 /\ maxPerCat >= 1 /\ NoOverfullPage) =>
    /\ Len(Listed(1)) <= maxPerCat
    /\ MutationsOf(1) <= maxPerCat
    /\ (pc = "done" /\ faults = 0 /\ Held(categories[1]) >= maxPerCat) =>
          /\ Returned
          /\ Len(Listed(1)) = maxPerCat
          /\ DoneOf(1) = maxPerCat
          /\ ~TheSummary.Completed
          /\ TheSummary.Reason = ReasonMax

C11_Witness ==
  /\ Returned /\ Len(categories) = 1 /\ faults = 0
  /\ Held(categories[1]) > maxPerCat
  /\ DoneOf(1) = maxPerCat
  /\ TheSummary.Reason = ReasonMax

\* C12: a failed page request ends the listing: the lister returns an error and
\* no threads, also when earlier pages succeeded, and issues no further call.
C12_FailedPageAbortsListing ==
  \A j \in Calls :
    (calls[j].op = "list" /\ calls[j].fail) =>
      /\ j = Len(calls)
      /\ pc = "done"
      /\ err # NoErr
      /\ threads = <<>>
      /\ IsClean => summary = NoSummary

C12_Witness ==
  /\ ~IsClean /\ pc = "done"
  /\ pageCount >= 2
  /\ calls[Len(calls)].op = "list" /\ calls[Len(calls)].fail
  /\ allThreads # <<>>
  /\ threads = <<>>
  /\ err # NoErr

\* C13 (as stated): if an earlier category set the "remaining emails" reason
\* and a later category reaches its cap, the returned reason is still
\* "remaining emails detected in one or more categories".
C13_EarlierRemainingReasonKept ==
  Returned =>
    \A k1 \in 1..Len(categories) : \A k2 \in 1..Len(categories) :
      (k1 < k2 /\ RemainingSetAt(k1) /\ CapHitAt(k2)) =>
        TheSummary.Reason = ReasonRemaining

\* C13 (amended): if an earlier category set the "remaining emails" reason and
\* a later category reaches its cap, and no category after that one has a
\* positive estimate, the returned reason is the cap reason; Completed is false.
C13_LaterCapHitOverwritesReason ==
  Returned =>
    \A k1 \in 1..Len(categories) : \A k2 \in 1..Len(categories) :
      (/\ k1 < k2 /\ RemainingSetAt(k1) /\ CapHitAt(k2)
       /\ \A k3 \in 1..Len(categories) : k3 > k2 => ~RemainingSetAt(k3)) =>
        /\ TheSummary.Reason = ReasonMax
        /\ ~TheSummary.Completed

C13_Witness ==
  /\ Returned /\ Len(categories) = 2
  /\ RemainingSetAt(1) /\ CapHitAt(2)
  /\ TheSummary.Reason = ReasonMax

\* C14: when CleanCategories returns an error, the handler answers 401 exactly
\* when the text of the failed remote call carries an auth marker, else 500,
\* whichever call failed; without an error it answers 200.
C14_StatusFollowsAuthMarker ==
  (Accepted /\ pc = "done") =>
    IF err = NoErr THEN status = StatusOK
    ELSE /\ calls # <<>>
         /\ Failed(calls[Len(calls)])
         /\ status = IF \E m \in AuthMarkers : Contains(calls[Len(calls)].cause, m)
                     THEN StatusUnauthorized ELSE StatusInternalServerError

C14_Witness ==
  /\ Accepted /\ pc = "done" /\ status = StatusUnauthorized
  /\ calls[Len(calls)].op = "modify"
  /\ calls[Len(calls)].k = 2

\* C15: whatever requests pass through the middleware stack (an OAuth callback
\* answered with a JSON body, a clean request carrying X-Access-Token, a
\* request whose handler panics), no emitted log entry carries the value of an
\* access token.
C15_TokensNeverLogged ==
  \A j \in DOMAIN log : AccessToken \notin log[j].texts

\* C16: a clean request without the token header (401), without configured
\* credentials (500) or with an invalid body (400) is rejected before
\* CleanCategories is invoked and before any remote call.
C16_RejectedBeforeAnyCall ==
  LET cats == req.Categories
      badBody == \/ Len(cats) = 0
                 \/ \E j \in 1..Len(cats) :
                      cats[j] \notin {"CATEGORY_SOCIAL", "CATEGORY_FORUMS",
                                      "CATEGORY_PROMOTIONS", "CATEGORY_UPDATES", "TRASH"}
                 \/ req.MaxPerCategory < 0
                 \/ req.MaxPerCategory > 1000000
  IN IsClean =>
       /\ (~header \/ ~conf \/ badBody) =>
             /\ pc \in {"RouteClean", "Clean", "done"}
             /\ calls = <<>>
             /\ summary = NoSummary
       /\ (~header /\ pc = "done") => status = StatusUnauthorized
       /\ (header /\ ~conf /\ pc = "done") => status = StatusInternalServerError
       /\ (header /\ conf /\ svc /\ badBody /\ pc = "done") => status = StatusBadRequest

C16_Witness ==
  /\ IsClean /\ pc = "done" /\ status = StatusBadRequest
  /\ header /\ conf /\ svc
  /\ req.MaxPerCategory = MaxRequestCap + 1
  /\ Len(req.Categories) = 2
  /\ \A j \in 1..Len(req.Categories) : req.Categories[j] \in ValidLabels
  /\ calls = <<>>

\* C17: the returned reason is the one written by the last category, in
\* processing order, that reached its cap or had a positive estimate; it is
\* "all categories processed" only when no category did either.
C17_ReasonIsLastWrite ==
  Returned =>
    LET tripped == {k \in 1..Len(categories) : CapHitAt(k) \/ RemainingSetAt(k)}
    IN IF tripped = {} THEN TheSummary.Reason = ReasonAll
       ELSE LET last == CHOOSE k \in tripped : \A m \in tripped : m <= k
            IN TheSummary.Reason = IF CapHitAt(last) THEN ReasonMax ELSE ReasonRemaining

C17_Witness ==
  /\ Returned /\ Len(categories) = 2
  /\ CapHitAt(1) /\ RemainingSetAt(2)
  /\ TheSummary.Reason = ReasonRemaining

\* list pages (and the pauses between them), then per-thread calls, then the
\* estimate, then the pause after the label
Phase(c) ==
  CASE c.op \in {"list", "sleep"} -> 1
    [] c.op \in {"modify", "delete"} -> 2
    [] c.op = "estimate" -> 3
    [] OTHER -> 4

\* c was issued before d
Ordered(c, d) ==
  /\ c.k <= d.k
  /\ c.k = d.k => Phase(c) <= Phase(d)

\* C18: the remote calls of one invocation follow the request order of the
\* categories without interleaving, within a category list pages come before
\* per-thread calls and these before the estimate, and no step of the
\* invocation has more than one remote call under way. Stated on each step:
\* the step only appends to the trace, what it appends belongs to the category
\* at its position in the request and comes, in this order, after the entry
\* before it, and at most one appended entry is a remote call.
C18_CallsInProcessingOrder ==
  [][IsClean =>
       LET old == Len(calls)
           new == (old + 1)..Len(calls')
       IN /\ Len(calls') >= old
          /\ \A j \in 1..old : calls'[j] = calls[j]
          /\ \A j \in new :
               /\ calls'[j].label = categories'[calls'[j].k]
               /\ j > 1 => Ordered(calls'[j - 1], calls'[j])
          /\ Cardinality({j \in new : IsRemote(calls'[j])}) <= 1]_vars

C18_Witness ==
  /\ Returned /\ Len(categories) = 2 /\ categories[1] # categories[2]
  /\ \A k \in 1..2 :
       /\ \E j \in Calls : calls[j].k = k /\ calls[j].op = "list"
       /\ \E j \in Calls : calls[j].k = k /\ IsMutation(calls[j])
       /\ \E j \in Calls : calls[j].k = k /\ calls[j].op = "estimate"

\* C19: when a list or per-thread call fails, the mutations performed are
\* exactly the listed threads of the earlier categories followed by the threads
\* of the failing category that precede the failing one in list order; none is
\* undone and nothing at or after the failing thread is mutated.
C19_MutationsArePrefix ==
  IsClean =>
    \A j \in Calls :
      Failed(calls[j]) =>
        LET k == calls[j].k
            n == DoneOf(k)
        IN /\ IF IsMutation(calls[j])
              THEN /\ n < Len(Listed(k))
                   /\ Listed(k)[n + 1] = calls[j].tid
                   /\ Mutated = ListedBefore(k) \o SubSeq(Listed(k), 1, n)
              ELSE Mutated = ListedBefore(k)
           /\ \A m \in Calls :
                (IsMutation(calls[m]) /\ ~calls[m].fail) =>
                  /\ calls[m].op = "delete" => ~Exists(calls[m].tid)
                  /\ calls[m].op = "modify" =>
                        \A l \in BoxLabels \ {"TRASH"} : ~Contains(mailbox[l], calls[m].tid)

C19_Witness ==
  /\ IsClean /\ pc = "done" /\ err # NoErr
  /\ IsMutation(calls[Len(calls)]) /\ calls[Len(calls)].fail
  /\ calls[Len(calls)].k = 2
  /\ Len(ListedBefore(2)) = 2
  /\ DoneOf(2) = 1
  /\ Len(Mutated) = 3

\* C20: for each processed label exactly one Estimate call is issued if the
\* label's deleted count is below maxPerCat and none otherwise, whatever
\* earlier labels did.
C20_EstimateIffBelowCap ==
  IsClean =>
    LET estimates == {j \in Calls : calls[j].op = "estimate"}
    IN /\ \A j \in estimates : \A n \in estimates : calls[j].k = calls[n].k => j = n
       /\ \A p \in Calls :
            calls[p].op = "pause" =>
              ((\E j \in estimates : calls[j].k = calls[p].k)
                 <=> DoneOf(calls[p].k) < maxPerCat)

C20_Witness ==
  /\ Returned /\ Len(categories) = 2
  /\ CapHitAt(1) /\ EstimatesOf(1) = 0
  /\ DoneOf(2) < maxPerCat /\ EstimatesOf(2) = 1

\* ------------------------------------------------------------------------
\* Properties of the listers
\* ------------------------------------------------------------------------
PagesOf(k) == {j \in Calls : calls[j].op = "list" /\ calls[j].k = k}
SleepsOf(k) == {j \in Calls : calls[j].op = "sleep" /\ calls[j].k = k}
\* the listing of the k-th category (0: a direct invocation) is over
ListingOver(k) == ~Listing \/ idx # k

\* C21: a listing pauses between pages and not after the final one: every pause
\* stands directly after a successful page request and directly before the next
\* page request of the same listing, every page request but the first stands
\* directly after a pause, and a listing that is over took one pause less than
\* it issued page requests.
C21_PausesOnlyBetweenPages ==
  /\ \A j \in Calls :
       calls[j].op = "sleep" =>
         /\ j > 1
         /\ calls[j - 1].op = "list" /\ calls[j - 1].k = calls[j].k /\ ~calls[j - 1].fail
         /\ IF j < Len(calls)
            THEN calls[j + 1].op = "list" /\ calls[j + 1].k = calls[j].k
            ELSE Listing /\ idx = calls[j].k
  /\ \A j \in Calls :
       (calls[j].op = "list" /\ j > 1 /\ calls[j - 1].k = calls[j].k
          /\ calls[j - 1].op \in {"list", "sleep"}) =>
         calls[j - 1].op = "sleep"
  /\ \A j \in Calls :
       (calls[j].op = "list" /\ ListingOver(calls[j].k)) =>
         Cardinality(SleepsOf(calls[j].k)) = Cardinality(PagesOf(calls[j].k)) - 1

C21_Witness ==
  /\ ~IsClean /\ pc = "done" /\ err # NoErr
  /\ Cardinality(PagesOf(0)) = 2
  /\ Cardinality(SleepsOf(0)) = 1
  /\ calls[Len(calls)].op = "list" /\ calls[Len(calls)].fail

\* C22: ListTrashThreads(max) and ListCategoryThreads("TRASH", max), answered
\* alike, issue the same page requests (label, page size, token) with the same
\* pauses, stop after the same page, and return the same threads or both fail.
C22_TrashListsAsCategory ==
  first.ran =>
    LET mine == Pages(calls)
        theirs == Pages(first.calls)
    IN /\ Len(mine) <= Len(theirs)
       /\ \A j \in 1..Len(mine) : mine[j] = theirs[j]
       /\ pc = "ListCategoryThreads" => Len(mine) < Len(theirs)
       /\ pc = "done" =>
             /\ calls = first.calls
             /\ threads = first.threads
             /\ (err = NoErr) <=> (first.err = NoErr)

C22_Witness ==
  /\ first.ran /\ pc = "done"
  /\ max = 2 * maxPerPage + 1
  /\ pageCount = 3
  /\ Len(threads) = max
  /\ threads = first.threads

\* ------------------------------------------------------------------------
\* Properties of the summary
\* ------------------------------------------------------------------------
\* CleanCategories is past the initialisation of its locals
Running == Accepted /\ pc # "CleanCategories"

\* C23: throughout a CleanCategories invocation and in every returned summary
\* the reason is one of the three fixed strings, and completed is true exactly
\* when the reason is "all categories processed".
C23_ReasonOneOfThree ==
  LET fixed == {"all categories processed",
                "max per category reached; more emails may remain",
                "remaining emails detected in one or more categories"}
  IN /\ Running =>
          /\ reason \in fixed
          /\ completed <=> reason = "all categories processed"
     /\ Returned =>
          /\ TheSummary.Reason \in fixed
          /\ TheSummary.Completed <=> TheSummary.Reason = "all categories processed"

C23_Witness ==
  /\ Returned /\ Len(categories) = 2
  /\ TheSummary.Completed
  /\ TheSummary.Reason = ReasonAll
  /\ TheSummary.TotalDeleted > 0
  /\ EstimatesOf(1) = 1 /\ EstimatesOf(2) = 1

\* the count of the k-th category has been stored in the result
Recorded(k) == k < idx \/ (k = idx /\ Estimating)

\* the threads of the per-thread calls among calls[1..n] issued for the k-th
\* category, in order
RECURSIVE MutationTidsIn(_, _)
MutationTidsIn(k, n) ==
  IF n = 0 THEN <<>>
  ELSE MutationTidsIn(k, n - 1)
       \o (IF IsMutation(calls[n]) /\ calls[n].k = k THEN <<calls[n].tid>> ELSE <<>>)
MutationTids(k) == MutationTidsIn(k, Len(calls))

RECURSIVE ListedUpTo(_)
ListedUpTo(k) == IF k = 0 THEN 0 ELSE ListedUpTo(k - 1) + Len(Listed(k))

\* C24: for every category whose count was recorded, the per-thread calls
\* issued for it are exactly its listed threads, one call each, in list order
\* (none when the listing is empty); the count stored under its label, until a
\* later category of the same label overwrites it, is the number of listed
\* threads; and the running total grew by that number for each such category.
C24_CountIsListedIsMutated ==
  Running =>
    LET recorded == {k \in 1..Len(categories) : Recorded(k)}
    IN /\ \A k \in recorded :
            /\ MutationTids(k) = Listed(k)
            /\ categories[k] \in DOMAIN result
            /\ (\A m \in recorded : m > k => categories[m] # categories[k]) =>
                  result[categories[k]] = Len(Listed(k))
            /\ Listed(k) = <<>> => MutationsOf(k) = 0
       /\ \A k \in 0..Len(categories) :
            (recorded = 1..k) => total = ListedUpTo(k)

C24_Witness ==
  /\ Returned /\ Len(categories) = 2 /\ categories[1] # categories[2]
  /\ Len(Listed(1)) = 2 /\ MutationsOf(1) = 2
  /\ Listed(2) = <<>> /\ MutationsOf(2) = 0
  /\ TheSummary.PerCategoryDeleted[categories[1]] = 2
  /\ TheSummary.PerCategoryDeleted[categories[2]] = 0

\* C25: a thread the invocation listed under a label other than TRASH is only
\* moved to trash: the same invocation never issues a permanent delete for it,
\* also when TRASH comes later in the category sequence.
C25_TrashedNeverDeleted ==
  IsClean =>
    \A j \in Calls : \A m \in Calls :
      (calls[j].op = "list" /\ calls[j].label # "TRASH" /\ calls[m].op = "delete") =>
        ~Contains(calls[j].got, calls[m].tid)

\* C26: whatever the provider answers, a listing issues at most max(1, max)
\* page requests, because every page after which it goes on held at least one
\* thread and left totalFetched below max.
C26_ListingWithinMaxPages ==
  /\ pageCount <= (IF max >= 1 THEN max ELSE 1)
  /\ \A j \in Calls :
       calls[j].op = "list" =>
         Cardinality(PagesOf(calls[j].k)) <= (IF max >= 1 THEN max ELSE 1)
  /\ \A j \in Calls :
       calls[j].op = "sleep" => calls[j - 1].ret >= 1 /\ Len(ListedIn(calls[j].k, j)) < max

C26_Witness ==
  /\ ~IsClean /\ pc = "done" /\ err = NoErr
  /\ max >= 2 /\ pageCount = max
  /\ pageToken # 0
  /\ entry = "ListTrashThreads"

\* C27: for max >= 1, every page request asks for at least one thread.
C27_PageSizeAtLeastOne ==
  max >= 1 => \A j \in Calls : calls[j].op = "list" => calls[j].size >= 1

C27_Witness ==
  /\ ~IsClean /\ pc = "done" /\ err = NoErr
  /\ max >= 2 /\ pageCount = 2
  /\ calls[Len(calls)].op = "list" /\ calls[Len(calls)].size = 1
  /\ calls[Len(calls)].ret > calls[Len(calls)].size

\* ------------------------------------------------------------------------
\* Properties of the router
\* ------------------------------------------------------------------------
\* the handler of the request in flight has been entered, or the request answered
AtOrPastHandler ==
  \/ stage \in {"handler", "MetricsMiddleware", "logDetailedResponse", "handlePanic"}
  \/ stage = "idle" /\ served > 0

\* C28: when a request carries a non-empty X-Request-ID header, the request_id
\* of the context and the X-Request-ID response header equal the client's
\* value while the handler runs and in the final response.
C28_ClientRequestIDKept ==
  (AtOrPastHandler /\ GetHeader("X-Request-ID") # "") =>
    /\ requestID = GetHeader("X-Request-ID")
    /\ headerID = GetHeader("X-Request-ID")

\* ------------------------------------------------------------------------
\* Properties of the metrics collector
\* ------------------------------------------------------------------------
\* requests not for a health-check path whose position is in S
InFlight(S) ==
  Cardinality({r \in 1..MaxConns : conns[r].at \in S /\ ~isHealthCheckPath(conns[r].path)})

\* C29 (as stated): in every reachable state ActiveConnections equals the number
\* of non-health-check requests between entry to and exit from
\* MetricsMiddleware; it is never negative and is 0 when none is in flight.
C29_ActiveIsRequestsInMiddleware ==
  /\ active = InFlight({"entered", "counted", "after", "panicking", "leaving"})
  /\ active >= 0

\* C29 (amended): in every reachable state ActiveConnections equals the number
\* of non-health-check requests between their increment and their deferred
\* decrement, panicking ones included; it never exceeds the number of such
\* requests inside MetricsMiddleware, is never negative and is 0 when none is
\* in flight.
C29_ActiveIsRequestsCounted ==
  /\ active = InFlight({"counted", "after", "panicking"})
  /\ active <= InFlight({"entered", "counted", "after", "panicking", "leaving"})
  /\ active >= 0
  /\ InFlight({"entered", "counted", "after", "panicking", "leaving"}) = 0 => active = 0

C29_Witness ==
  /\ active = 1
  /\ \E r \in 1..MaxConns : conns[r].at = "leaving" /\ conns[r].panics
  /\ \E r \in 1..MaxConns : conns[r].at = "counted"
  /\ \E r \in 1..MaxConns : conns[r].at = "skipped"

\* ------------------------------------------------------------------------
\* Properties of the logger package
\* ------------------------------------------------------------------------
\* C30: after any sequence of InitLogger and L calls, in any order and from any
\* goroutines, also when an InitLogger call fails to build its logger, every
\* call of L returns a non-nil logger.
C30_LNeverReturnsNil ==
  \A g \in 1..MaxCallers :
    (callers[g].op = "L" /\ callers[g].at = "returned") => callers[g].got # "nil"

====
